---- MODULE Spec2Model ----
(***************************************************************************)
(* Model of filez (src/src/lib.rs): the Files trait as implemented by       *)
(* ParentDirectory -- read, write and list under a parent directory -- on  *)
(* top of a small POSIX file tree, tokio's fs::File and the glob crate.     *)
(*                                                                         *)
(* A string is a sequence of one-character strings ("n/t" is               *)
(* <<"n","/","t">>), so that format!, Path::parent and the glob's path      *)
(* formatting are computed character by character.  A node of the file     *)
(* tree is the sequence of the names from "/" down to it.                  *)
(***************************************************************************)
EXTENDS Naturals, Sequences, FiniteSets

\* ------------------------------------------------------------------ bounds
\* Calls one task makes in the sequential specification.
MaxCalls == 2

\* ----------------------------------------------------------------- strings
Sep == "/"
Dot == "."
\* stands for a byte that is not valid UTF-8 (a file name OsStr::to_str rejects)
BadByte == "#"
\* the zero byte the kernel fills a hole with
Nul == "0"

\* order of the characters (the glob sorts directory entries by file name)
Alphabet == <<"#", "*", ".", "/", "0", "?", "[", "a", "b", "f", "n", "s", "t", "u", "w">>

Rank(c) == CHOOSE i \in 1..Len(Alphabet) : Alphabet[i] = c

Range(s) == {s[i] : i \in 1..Len(s)}

RECURSIVE Less(_, _)
\* a < b, lexicographically
Less(a, b) ==
    IF b = <<>> THEN FALSE
    ELSE IF a = <<>> THEN TRUE
    ELSE IF Head(a) = Head(b) THEN Less(Tail(a), Tail(b))
    ELSE Rank(Head(a)) < Rank(Head(b))

RECURSIVE SortNames(_)
\* the names of a set in ascending order
SortNames(S) ==
    IF S = {} THEN <<>>
    ELSE LET m == CHOOSE x \in S : \A y \in S \ {x} : Less(x, y)
         IN  <<m>> \o SortNames(S \ {m})

RECURSIVE Flatten(_)
Flatten(ss) == IF ss = <<>> THEN <<>> ELSE Head(ss) \o Flatten(Tail(ss))

RECURSIVE Split(_)
\* str::split('/'): the pieces between the separators, empty ones included
Split(s) ==
    IF \A i \in 1..Len(s) : s[i] # Sep THEN <<s>>
    ELSE LET k == CHOOSE i \in 1..Len(s) :
                      s[i] = Sep /\ \A j \in 1..(i - 1) : s[j] # Sep
         IN  <<SubSeq(s, 1, k - 1)>> \o Split(SubSeq(s, k + 1, Len(s)))

RECURSIVE JoinSep(_)
\* the names joined by "/"
JoinSep(segs) ==
    IF segs = <<>> THEN <<>>
    ELSE IF Len(segs) = 1 THEN segs[1]
    ELSE segs[1] \o <<Sep>> \o JoinSep(Tail(segs))

SelectNames(segs) == SelectSeq(segs, LAMBDA x : x # <<>> /\ x # <<Dot>>)

\* ------------------------------------------------------------------- paths
\* std::path::Path as its components: abs (a RootDir component) and the
\* Normal components; empty pieces and "." pieces are not components.
Components(s) ==
    [abs |-> s # <<>> /\ s[1] = Sep, segs |-> SelectNames(Split(s))]

\* The working directory of the process.
Cwd == << <<"w">> >>

\* The node a path names: a relative path is resolved from the working directory.
Node(p) == IF p.abs THEN p.segs ELSE Cwd \o p.segs

\* Path::parent: the path without its last component, None for a bare root
HasParent(p) == p.segs # <<>>

PathParent(p) == [abs |-> p.abs, segs |-> SubSeq(p.segs, 1, Len(p.segs) - 1)]

\* the nodes from "/" down to n, n included
Prefixes(n) == {SubSeq(n, 1, k) : k \in 0..Len(n)}

ProperPrefixes(n) == {SubSeq(n, 1, k) : k \in 0..(Len(n) - 1)}

\* ------------------------------------------------------------------- state
VARIABLES
    parent,     \* ParentDirectory.parent: the root the store was built with
    dirs,       \* the directories of the file tree (nodes)
    files,      \* the regular files: node -> content (a sequence of bytes)
    noread,     \* directories whose entries the process may not read
    pc,         \* per task: the await point its current call is at
    call,       \* per task: the call in progress [op, path, content]
    rd,         \* per task: the read in progress [node, pos, buf]
    hist,       \* per task: the last two calls that returned, with their results
    jobs,       \* byte stores handed to tokio's blocking pool, not finished yet
    lost,       \* ids of the byte stores that failed after write had returned
    lastDone,   \* the task whose write returned last (0: none yet)
    overlap     \* whether a write began while another write was unfinished

vars == <<parent, dirs, files, noread, pc, call, rd, hist, jobs, lost, lastDone, overlap>>

IsDir(n) == n \in dirs

IsFile(n) == n \in DOMAIN files

Exists(n) == IsDir(n) \/ IsFile(n)

\* the entries of directory n
Children(n) ==
    {m \in dirs \cup DOMAIN files : Len(m) = Len(n) + 1 /\ SubSeq(m, 1, Len(n)) = n}

\* ParentDirectory::with_parent: format!("{}/{}", self.parent, path)
with_parent(path) == parent \o <<Sep>> \o path

\* ---------------------------------------------------------- the glob crate
\* A path of the glob iterator: abs and the pieces pushed so far.  The
\* current directory "." is [abs FALSE, no pieces]: a piece joined to it
\* replaces it (PathBuf::from), so what the iterator yields for a pattern
\* under "./" carries no "./".
CurDirPath == [abs |-> FALSE, segs |-> <<>>]

GJoin(path, s) ==
    IF s = <<>> \/ (path = CurDirPath /\ s = <<Dot>>) THEN path
    ELSE [abs |-> path.abs, segs |-> Append(path.segs, s)]

GNode(path) == Node([abs |-> path.abs, segs |-> SelectNames(path.segs)])

\* PathBuf as a string (Path::to_str of what the iterator yields)
Format(path) ==
    IF path.abs THEN <<Sep>> \o JoinSep(path.segs)
    ELSE IF path.segs = <<>> THEN <<Dot>>
    ELSE JoinSep(path.segs)

\* Pattern::new on one component.  "[" opens a character class and needs its
\* "]" at least two characters on; "**" must be a whole component and "***"
\* is never valid.  (The expressions drawn below hold no valid class:
\* PatMatch knows literals, "?" and "*".)
WellFormedComp(c) ==
    /\ \A i \in 1..Len(c) : c[i] = "[" => \E j \in (i + 2)..Len(c) : c[j] = "]"
    /\ (\E i \in 1..(Len(c) - 1) : c[i] = "*" /\ c[i + 1] = "*") => c = <<"*", "*">>

IsRecursive(c) == c = <<"*", "*">>

\* pattern_as_str: a component made of plain characters only
IsLiteral(c) == \A i \in 1..Len(c) : c[i] \notin {"*", "?", "["}

RECURSIVE PatMatch(_, _)
\* Pattern::matches on a file name
PatMatch(pat, name) ==
    IF pat = <<>> THEN name = <<>>
    ELSE IF Head(pat) = "*"
         THEN \E k \in 0..Len(name) : PatMatch(Tail(pat), SubSeq(name, k + 1, Len(name)))
    ELSE IF name = <<>> THEN FALSE
    ELSE IF Head(pat) = "?" THEN PatMatch(Tail(pat), Tail(name))
    ELSE Head(pat) = Head(name) /\ PatMatch(Tail(pat), Tail(name))

\* glob_with: the components of the pattern after its root
GlobComps(s) ==
    LET body == IF s # <<>> /\ s[1] = Sep THEN Tail(s) ELSE s
        pieces == Split(body)
    IN  IF pieces[Len(pieces)] = <<>> THEN SubSeq(pieces, 1, Len(pieces) - 1) ELSE pieces

\* glob_with: the pattern as the iterator keeps it
GlobOf(s) ==
    [pats |-> GlobComps(s),
     require_dir |-> s # <<>> /\ s[Len(s)] = Sep,
     scope |-> IF s # <<>> /\ s[1] = Sep THEN [abs |-> TRUE, segs |-> <<>>] ELSE CurDirPath]

GOk(path) == [ok |-> TRUE, path |-> path]

\* GlobError: read_dir failed on a directory
GErr(path) == [ok |-> FALSE, path |-> path]

\* The last pattern of the run of recursive patterns that starts at idx.
RecEnd(pats, idx) ==
    CHOOSE k \in idx..Len(pats) :
        /\ \A j \in idx..k : IsRecursive(pats[j])
        /\ (k = Len(pats) \/ ~IsRecursive(pats[k + 1]))

RECURSIVE fill_todo(_, _, _)
RECURSIVE PopTodo(_, _, _)
RECURSIVE MatchTodo(_, _, _)

\* Paths::next on an entry (path, idx) matched normally
MatchTodo(g, idx, path) ==
    LET name == path.segs[Len(path.segs)]
    IN  IF BadByte \in Range(name) THEN <<>>
        ELSE IF ~PatMatch(g.pats[idx], name) THEN <<>>
        ELSE IF idx = Len(g.pats)
             THEN IF ~g.require_dir \/ IsDir(GNode(path)) THEN <<GOk(path)>> ELSE <<>>
        ELSE fill_todo(g, idx + 1, path)

\* Paths::next on an entry (path, idx) popped from the todo stack
PopTodo(g, idx, path) ==
    IF IsRecursive(g.pats[idx])
    THEN LET next == RecEnd(g.pats, idx)
         IN  IF IsDir(GNode(path))
             THEN (IF next = Len(g.pats) THEN <<GOk(path)>> ELSE MatchTodo(g, next + 1, path))
                  \o fill_todo(g, next, path)
             ELSE IF next = Len(g.pats) THEN <<>>
             ELSE MatchTodo(g, next + 1, path)
    ELSE MatchTodo(g, idx, path)

\* fill_todo, with what the iterator then yields for the entries it pushed,
\* in the order it yields them (entries sorted by name, depth first)
fill_todo(g, idx, path) ==
    LET pat == g.pats[idx]
        add(next) ==
            IF idx = Len(g.pats)
            THEN IF g.require_dir /\ ~IsDir(GNode(next)) THEN <<>> ELSE <<GOk(next)>>
            ELSE fill_todo(g, idx + 1, next)
    IN  IF IsLiteral(pat)
        THEN LET special == pat = <<Dot>>      \* (no expression drawn holds "..")
                 next == GJoin(path, pat)
             IN  IF \/ special /\ IsDir(GNode(path))
                    \/ ~special /\ Exists(GNode(next))
                 THEN add(next) ELSE <<>>
        ELSE IF IsDir(GNode(path))
        THEN IF GNode(path) \in noread THEN <<GErr(path)>>
             ELSE LET names == SortNames({m[Len(m)] : m \in Children(GNode(path))})
                  IN  Flatten([i \in 1..Len(names) |-> PopTodo(g, idx, GJoin(path, names[i]))])
        ELSE <<>>

\* glob::glob: a PatternError, or the entries the iterator yields
glob(s) ==
    LET g == GlobOf(s)
    IN  IF \E i \in 1..Len(g.pats) : ~WellFormedComp(g.pats[i])
        THEN [ok |-> FALSE, items |-> <<>>]
        ELSE [ok |-> TRUE,
              items |-> IF g.pats = <<>> THEN <<>> ELSE fill_todo(g, 1, g.scope)]

\* ------------------------------------------------------------------ inputs
Tasks == {1, 2, 3}

\* the roots a store is built with: a relative one and an absolute one
Roots == {<<".">>, <<"/", "s">>}

\* the relative paths callers pass: "f", "n/t", "n"
Paths == {<<"f">>, <<"n", "/", "t">>, <<"n">>}

\* the contents callers write: "", "aa" and "b".  Each fits tokio's file
\* buffer, so write_all hands the whole content over in one poll_write.
Contents == {<<>>, <<"a", "a">>, <<"b">>}

\* the glob expressions callers pass: "*", "n/*", "*/*", "n/t", "**/t", "n/["
Exprs ==
    {<<"*">>, <<"n", "/", "*">>, <<"*", "/", "*">>, <<"n", "/", "t">>,
     <<"*", "*", "/", "t">>, <<"n", "/", "[">>}

\* the node of the store's root
RootNode == Node(Components(parent))

\* the resolved path of a call and the node it names
Resolved(path) == Components(with_parent(path))

Target(path) == Node(Resolved(path))

\* ----------------------------------------------------------------- results
NoVal == <<>>

Ok(op, arg, content, val, id) ==
    [op |-> op, arg |-> arg, content |-> content, ok |-> TRUE, val |-> val,
     kind |-> "", ctx |-> <<>>, source |-> "", id |-> id]

\* ReadError / WriteError { path, source }, ListError { expression, kind }
Err(op, arg, content, kind, ctx, source, id) ==
    [op |-> op, arg |-> arg, content |-> content, ok |-> FALSE, val |-> NoVal,
     kind |-> kind, ctx |-> ctx, source |-> source, id |-> id]

\* the number of calls task t has made and seen return
Made(t) == IF hist[t] = <<>> THEN 0 ELSE hist[t][Len(hist[t])].id[2]

\* the id of the call task t is making
CallId(t) == <<t, Made(t) + 1>>

\* the call returns r to its caller; hist keeps the last two returns
Return(t, r) ==
    /\ hist' = [hist EXCEPT ![t] = IF @ = <<>> THEN <<r>> ELSE <<@[Len(@)], r>>]
    /\ pc' = [pc EXCEPT ![t] = "idle"]

WritePcs == {"w_dirs", "w_create", "w_write"}

\* a write of node n that has begun and whose bytes are not all stored
Unfinished(n) ==
    \/ \E u \in Tasks : pc[u] \in WritePcs /\ Target(call[u].path) = n
    \/ \E j \in jobs : j.node = n

\* -------------------------------------------------------------------- read
\* the io::Error of opening node n (for reading, or for writing without create)
OpenError(n) ==
    IF \E m \in ProperPrefixes(n) : IsFile(m) THEN "NotADirectory" ELSE "NotFound"

\* read, to its first await: File::open is handed to the blocking pool
BeginRead(t, path) ==
    /\ pc[t] = "idle"
    /\ call' = [call EXCEPT ![t] = [op |-> "read", path |-> path, content |-> <<>>]]
    /\ pc' = [pc EXCEPT ![t] = "r_open"]
    /\ UNCHANGED <<parent, dirs, files, noread, rd, hist, jobs, lost, lastDone, overlap>>

\* (mutant) a read that returns an empty string for a path that is not there
ReadOpenDefault(t) ==
    /\ pc[t] = "r_open"
    /\ LET n == Target(call[t].path)
       IN  IF Exists(n)
           THEN /\ rd' = [rd EXCEPT ![t] = [node |-> n, pos |-> 0, buf |-> <<>>]]
                /\ pc' = [pc EXCEPT ![t] = "r_read"]
                /\ UNCHANGED hist
           ELSE /\ Return(t, Ok("read", call[t].path, <<>>, <<>>, CallId(t)))
                /\ UNCHANGED rd
    /\ UNCHANGED <<parent, dirs, files, noread, call, jobs, lost, lastDone, overlap>>

\* (mutant) a read that opens with create: a missing file comes to exist
ReadOpenCreates(t) ==
    /\ pc[t] = "r_open"
    /\ LET n == Target(call[t].path)
       IN  IF Exists(n)
           THEN /\ rd' = [rd EXCEPT ![t] = [node |-> n, pos |-> 0, buf |-> <<>>]]
                /\ pc' = [pc EXCEPT ![t] = "r_read"]
                /\ UNCHANGED <<hist, files>>
           ELSE IF \A m \in ProperPrefixes(n) : IsDir(m)
           THEN /\ files' = [m \in DOMAIN files \cup {n} |-> IF m = n THEN <<>> ELSE files[m]]
                /\ rd' = [rd EXCEPT ![t] = [node |-> n, pos |-> 0, buf |-> <<>>]]
                /\ pc' = [pc EXCEPT ![t] = "r_read"]
                /\ UNCHANGED hist
           ELSE /\ Return(t, Err("read", call[t].path, <<>>, "ReadError",
                                 call[t].path, OpenError(n), CallId(t)))
                /\ UNCHANGED <<rd, files>>
    /\ UNCHANGED <<parent, dirs, noread, call, jobs, lost, lastDone, overlap>>

\* File::open(self.with_parent(path)).await.map_err(ReadError { path, .. })?
ReadOpen(t) ==
    /\ pc[t] = "r_open"
    /\ LET n == Target(call[t].path)
       IN  IF Exists(n)
           THEN /\ rd' = [rd EXCEPT ![t] = [node |-> n, pos |-> 0, buf |-> <<>>]]
                /\ pc' = [pc EXCEPT ![t] = "r_read"]
                /\ UNCHANGED hist
           ELSE /\ Return(t, Err("read", call[t].path, <<>>, "ReadError",
                                 call[t].path, OpenError(n), CallId(t)))
                /\ UNCHANGED rd
    /\ UNCHANGED <<parent, dirs, files, noread, call, jobs, lost, lastDone, overlap>>

\* (mutant) a read that waits while a write of the same file is unfinished
ReadChunkLocked(t) ==
    /\ pc[t] = "r_read"
    /\ ~Unfinished(rd[t].node)
    /\ LET n == rd[t].node
           pos == rd[t].pos
       IN  IF pos < Len(files[n])
           THEN /\ rd' = [rd EXCEPT ![t] = [node |-> n, pos |-> Len(files[n]),
                                 buf |-> rd[t].buf \o SubSeq(files[n], pos + 1, Len(files[n]))]]
                /\ UNCHANGED <<pc, hist>>
           ELSE /\ Return(t, Ok("read", call[t].path, <<>>, rd[t].buf, CallId(t)))
                /\ UNCHANGED rd
    /\ UNCHANGED <<parent, dirs, files, noread, call, jobs, lost, lastDone, overlap>>

\* file.read_to_string(&mut content).await: one read of the open file at its
\* own offset.  A read that finds bytes appends some of them; the read that
\* finds none ends the loop, and the bytes are returned if they are UTF-8.
ReadChunk(t) ==
    /\ pc[t] = "r_read"
    /\ LET n == rd[t].node
           pos == rd[t].pos
       IN  IF IsDir(n)
           THEN /\ Return(t, Err("read", call[t].path, <<>>, "ReadError",
                                 call[t].path, "IsADirectory", CallId(t)))
                /\ UNCHANGED rd
           ELSE IF pos < Len(files[n])
           THEN /\ \E k \in 1..(Len(files[n]) - pos) :
                       rd' = [rd EXCEPT ![t] = [node |-> n, pos |-> pos + k,
                                 buf |-> rd[t].buf \o SubSeq(files[n], pos + 1, pos + k)]]
                /\ UNCHANGED <<pc, hist>>
           ELSE IF BadByte \in Range(rd[t].buf)
           THEN /\ Return(t, Err("read", call[t].path, <<>>, "ReadError",
                                 call[t].path, "InvalidData", CallId(t)))
                /\ UNCHANGED rd
           ELSE /\ Return(t, Ok("read", call[t].path, <<>>, rd[t].buf, CallId(t)))
                /\ UNCHANGED rd
    /\ UNCHANGED <<parent, dirs, files, noread, call, jobs, lost, lastDone, overlap>>

\* ------------------------------------------------------------------- write
\* write, to its first await: the path is resolved and its parent taken; a
\* path with no parent is an error before anything is touched
BeginWrite(t, path, content) ==
    /\ pc[t] = "idle"
    /\ call' = [call EXCEPT ![t] = [op |-> "write", path |-> path, content |-> content]]
    /\ IF HasParent(Resolved(path))
       THEN /\ pc' = [pc EXCEPT ![t] = "w_dirs"]
            /\ overlap' = (overlap \/ Unfinished(Target(path)))
            /\ UNCHANGED hist
       ELSE /\ Return(t, Err("write", path, content, "WriteError", path, "Other", CallId(t)))
            /\ UNCHANGED overlap
    /\ UNCHANGED <<parent, dirs, files, noread, rd, jobs, lost, lastDone>>

\* (mutant) create_dir in place of create_dir_all: only the last directory is made
WriteDirsShallow(t) ==
    /\ pc[t] = "w_dirs"
    /\ LET d == Node(PathParent(Resolved(call[t].path)))
       IN  IF \E m \in Prefixes(d) : IsFile(m)
           THEN /\ Return(t, Err("write", call[t].path, call[t].content, "WriteError",
                                 call[t].path,
                                 IF IsFile(d) THEN "AlreadyExists" ELSE "NotADirectory",
                                 CallId(t)))
                /\ UNCHANGED dirs
           ELSE /\ dirs' = dirs \cup {d}
                /\ pc' = [pc EXCEPT ![t] = "w_create"]
                /\ UNCHANGED hist
    /\ UNCHANGED <<parent, files, noread, call, rd, jobs, lost, lastDone, overlap>>

\* fs::create_dir_all(dir_path).await.map_err(WriteError { path, .. })?
\* Every missing directory from "/" down to dir_path is made; one that is
\* there already is left alone; a regular file in the way is an error.
WriteDirs(t) ==
    /\ pc[t] = "w_dirs"
    /\ LET d == Node(PathParent(Resolved(call[t].path)))
       IN  IF \E m \in Prefixes(d) : IsFile(m)
           THEN /\ Return(t, Err("write", call[t].path, call[t].content, "WriteError",
                                 call[t].path,
                                 IF IsFile(d) THEN "AlreadyExists" ELSE "NotADirectory",
                                 CallId(t)))
                /\ UNCHANGED dirs
           ELSE /\ dirs' = dirs \cup Prefixes(d)
                /\ pc' = [pc EXCEPT ![t] = "w_create"]
                /\ UNCHANGED hist
    /\ UNCHANGED <<parent, files, noread, call, rd, jobs, lost, lastDone, overlap>>

\* (mutant) the file is opened for writing without being truncated
WriteCreateKeeps(t) ==
    /\ pc[t] = "w_create"
    /\ LET n == Target(call[t].path)
       IN  IF IsDir(n) \/ \E m \in ProperPrefixes(n) : ~IsDir(m)
           THEN /\ Return(t, Err("write", call[t].path, call[t].content, "WriteError",
                                 call[t].path,
                                 IF IsDir(n) THEN "IsADirectory" ELSE OpenError(n),
                                 CallId(t)))
                /\ UNCHANGED files
           ELSE /\ files' = [m \in DOMAIN files \cup {n} |->
                                IF m \in DOMAIN files THEN files[m] ELSE <<>>]
                /\ pc' = [pc EXCEPT ![t] = "w_write"]
                /\ UNCHANGED hist
    /\ UNCHANGED <<parent, dirs, noread, call, rd, jobs, lost, lastDone, overlap>>

\* File::create(path_with_parent).await.map_err(WriteError { path, .. })?
\* create-or-truncate: afterwards the file exists and is empty
WriteCreate(t) ==
    /\ pc[t] = "w_create"
    /\ LET n == Target(call[t].path)
       IN  IF IsDir(n) \/ \E m \in ProperPrefixes(n) : ~IsDir(m)
           THEN /\ Return(t, Err("write", call[t].path, call[t].content, "WriteError",
                                 call[t].path,
                                 IF IsDir(n) THEN "IsADirectory" ELSE OpenError(n),
                                 CallId(t)))
                /\ UNCHANGED files
           ELSE /\ files' = [m \in DOMAIN files \cup {n} |-> IF m = n THEN <<>> ELSE files[m]]
                /\ pc' = [pc EXCEPT ![t] = "w_write"]
                /\ UNCHANGED hist
    /\ UNCHANGED <<parent, dirs, noread, call, rd, jobs, lost, lastDone, overlap>>

\* File::create fails for a reason outside the tree (no descriptor left, no
\* inode left): the error is returned, what create_dir_all made stays
WriteCreateFault(t) ==
    /\ pc[t] = "w_create"
    /\ Return(t, Err("write", call[t].path, call[t].content, "WriteError",
                     call[t].path, "Other", CallId(t)))
    /\ UNCHANGED <<parent, dirs, files, noread, call, rd, jobs, lost, lastDone, overlap>>

\* the byte store write_all hands to the blocking pool
Job(t) ==
    [id |-> CallId(t), node |-> Target(call[t].path), buf |-> call[t].content, pos |-> 0]

\* what write_all leaves behind when it returns: tokio's File copies the
\* bytes into its buffer, spawns the store on the blocking pool and returns
\* Ok at once; lib.rs never flushes, so the store is still to run
Spawned(t) == IF call[t].content = <<>> THEN {} ELSE {Job(t)}

\* file.write_all(content.as_bytes()).await.map_err(..)?; Ok(())
WriteAll(t) ==
    /\ pc[t] = "w_write"
    /\ jobs' = jobs \cup Spawned(t)
    /\ Return(t, Ok("write", call[t].path, call[t].content, NoVal, CallId(t)))
    /\ lastDone' = t
    /\ UNCHANGED <<parent, dirs, files, noread, call, rd, lost, overlap>>

\* write(2) of bytes at offset pos: a hole before pos reads as zero bytes
WriteAt(old, pos, bytes) ==
    LET padded == old \o [i \in 1..(pos - Len(old)) |-> Nul]
    IN  SubSeq(padded, 1, pos) \o bytes \o SubSeq(padded, pos + Len(bytes) + 1, Len(padded))

\* The blocking pool runs a spawned store: std's write_all writes the buffer
\* at the descriptor's own offset, in one write(2) or in several.
Store(j) ==
    /\ j \in jobs
    /\ \E k \in 1..(Len(j.buf) - j.pos) :
          /\ files' = [files EXCEPT ![j.node] =
                          WriteAt(@, j.pos, SubSeq(j.buf, j.pos + 1, j.pos + k))]
          /\ jobs' = (jobs \ {j}) \cup
                        (IF j.pos + k = Len(j.buf) THEN {}
                         ELSE {[j EXCEPT !.pos = j.pos + k]})
    /\ UNCHANGED <<parent, dirs, noread, pc, call, rd, hist, lost, lastDone, overlap>>

\* A spawned store fails (no space left): the error stays in the dropped
\* File and reaches no caller.
StoreFault(j) ==
    /\ j \in jobs
    /\ jobs' = jobs \ {j}
    /\ lost' = lost \cup {j.id}
    /\ UNCHANGED <<parent, dirs, files, noread, pc, call, rd, hist, lastDone, overlap>>

\* -------------------------------------------------------------------- list
\* (mutant) the is_file test left out
IsListedAll(path) == BadByte \notin Range(Format(path))

\* path_buf.is_file() and path_buf.as_path().to_str() is Some
IsListed(path) == IsFile(GNode(path)) /\ BadByte \notin Range(Format(path))

\* paths.push(path.to_string()) for the listed entries, in the glob's order
ListPaths(items) ==
    LET kept == SelectSeq(items, LAMBDA it : IsListed(it.path))
    IN  [i \in 1..Len(kept) |-> Format(kept[i].path)]

\* the pattern list hands to glob::glob: format!("{}/{expression}", self.parent)
ListPattern(expression) == parent \o <<Sep>> \o expression

\* (mutant) the errors carry the pattern with the root in front
ListResultPrefixed(expression, id) ==
    LET g == glob(ListPattern(expression))
    IN  IF ~g.ok
        THEN Err("list", expression, <<>>, "ParseGlob", ListPattern(expression),
                 "PatternError", id)
        ELSE IF \E i \in 1..Len(g.items) : ~g.items[i].ok
        THEN Err("list", expression, <<>>, "ReadPath", ListPattern(expression),
                 "GlobError", id)
        ELSE Ok("list", expression, <<>>, ListPaths(g.items), id)

\* ParentDirectory::list as a function of the file tree
ListResult(expression, id) ==
    LET g == glob(ListPattern(expression))
    IN  IF ~g.ok
        THEN Err("list", expression, <<>>, "ParseGlob", expression, "PatternError", id)
        ELSE IF \E i \in 1..Len(g.items) : ~g.items[i].ok
        THEN Err("list", expression, <<>>, "ReadPath", expression, "GlobError", id)
        ELSE Ok("list", expression, <<>>, ListPaths(g.items), id)

\* list is synchronous: it runs from call to return with no await
List(t, expression) ==
    /\ pc[t] = "idle"
    /\ call' = [call EXCEPT ![t] = [op |-> "list", path |-> expression, content |-> <<>>]]
    /\ Return(t, ListResult(expression, CallId(t)))
    /\ UNCHANGED <<parent, dirs, files, noread, rd, jobs, lost, lastDone, overlap>>

\* ----------------------------------------------------------- specifications
NoCall == [op |-> "", path |-> <<>>, content |-> <<>>]

NoRead == [node |-> <<>>, pos |-> 0, buf |-> <<>>]

\* no call made yet, nothing handed to the blocking pool
InitTasks ==
    /\ pc = [t \in Tasks |-> "idle"]
    /\ call = [t \in Tasks |-> NoCall]
    /\ rd = [t \in Tasks |-> NoRead]
    /\ hist = [t \in Tasks |-> <<>>]
    /\ jobs = {}
    /\ lost = {}
    /\ lastDone = 0
    /\ overlap = FALSE

\* A tree in which the root does not exist yet (live() checks nothing).
EmptyTree ==
    /\ dirs = Prefixes(Cwd)
    /\ files = <<>>
    /\ noread = {}

\* A tree with files and directories under the root: f ("ab"), n/t ("b"),
\* n/# (a name that is not text) and u, a directory that cannot be listed,
\* with u/t ("a") in it.
FullTree ==
    LET r == RootNode
        f == r \o << <<"f">> >>
        n == r \o << <<"n">> >>
        u == r \o << <<"u">> >>
        nt == n \o << <<"t">> >>
        nx == n \o << <<BadByte>> >>
        ut == u \o << <<"t">> >>
    IN  /\ dirs = Prefixes(Cwd) \cup Prefixes(n) \cup Prefixes(u)
        /\ files = [m \in {f, nt, nx, ut} |->
                       IF m = f THEN <<"a", "b">>
                       ELSE IF m = nt THEN <<"b">>
                       ELSE IF m = ut THEN <<"a">> ELSE <<>>]
        /\ noread = {u}

Init ==
    /\ parent \in Roots
    /\ EmptyTree \/ FullTree
    /\ InitTasks

\* One caller makes up to MaxCalls calls, each awaited before the next.
SeqTasks == {1}

SeqRead(t) == Made(t) < MaxCalls /\ \E p \in Paths : BeginRead(t, p)

SeqWrite(t) ==
    Made(t) < MaxCalls /\ \E p \in Paths : \E c \in Contents : BeginWrite(t, p, c)

SeqList(t) == Made(t) < MaxCalls /\ \E e \in Exprs : List(t, e)

\* examples/list.rs: a path list returned is handed to read as it is
SeqReadListed(t) ==
    /\ Made(t) < MaxCalls
    /\ hist[t] # <<>>
    /\ LET r == hist[t][Len(hist[t])]
       IN  /\ r.op = "list"
           /\ r.ok
           /\ \E i \in 1..Len(r.val) : BeginRead(t, r.val[i])

Next ==
    \/ \E t \in SeqTasks : SeqRead(t)
    \/ \E t \in SeqTasks : SeqWrite(t)
    \/ \E t \in SeqTasks : SeqList(t)
    \/ \E t \in SeqTasks : SeqReadListed(t)
    \/ \E t \in Tasks : ReadOpen(t)
    \/ \E t \in Tasks : ReadChunk(t)
    \/ \E t \in Tasks : WriteDirs(t)
    \/ \E t \in Tasks : WriteCreate(t)
    \/ \E t \in Tasks : WriteCreateFault(t)
    \/ \E t \in Tasks : WriteAll(t)
    \/ \E j \in jobs : Store(j)
    \/ \E j \in jobs : StoreFault(j)

Spec == Init /\ [][Next]_vars

\* Concurrent callers of one store: two tasks write the same path and a
\* third reads it, each making one call, over a file that is there already.
Writers == {1, 2}

Readers == {3}

ConcPath == <<"f">>

ConcRoot == <<"/", "s">>

OldContents == {<<"a", "b">>}

InitConc ==
    /\ parent = ConcRoot
    /\ dirs = Prefixes(Cwd) \cup Prefixes(RootNode)
    /\ \E c0 \in OldContents : files = [m \in {Target(ConcPath)} |-> c0]
    /\ noread = {}
    /\ InitTasks

ConcWrite(t) == hist[t] = <<>> /\ \E c \in Contents : BeginWrite(t, ConcPath, c)

ConcRead(t) == hist[t] = <<>> /\ BeginRead(t, ConcPath)

NextConc ==
    \/ \E t \in Writers : ConcWrite(t)
    \/ \E t \in Readers : ConcRead(t)
    \/ \E t \in Tasks : ReadOpen(t)
    \/ \E t \in Tasks : ReadChunk(t)
    \/ \E t \in Tasks : WriteDirs(t)
    \/ \E t \in Tasks : WriteCreate(t)
    \/ \E t \in Tasks : WriteCreateFault(t)
    \/ \E t \in Tasks : WriteAll(t)
    \/ \E j \in jobs : Store(j)
    \/ \E j \in jobs : StoreFault(j)

SpecConc == InitConc /\ [][NextConc]_vars

\* ------------------------------------------------------------------ claims
\* the last call of task t that returned, and the one before it
Last(t) == hist[t][Len(hist[t])]

Prev(t) == hist[t][1]

Returned(t) == hist[t] # <<>>

\* The node a string names for the process (what open() would resolve it to).
NodeOf(str) == Node(Components(str))

\* C1 (as claimed): a write that returned success, followed by a read of the
\* same path by the same caller with nothing else touching the file, is read
\* back exactly: the read succeeds and returns the content written.
C1_RoundTrip ==
    \A t \in SeqTasks :
        (/\ Len(hist[t]) = 2
         /\ Prev(t).op = "write" /\ Prev(t).ok
         /\ Last(t).op = "read" /\ Last(t).arg = Prev(t).arg)
        => (Last(t).ok /\ Last(t).val = Prev(t).content)

\* C2 (as claimed): every string a successful list returned can be handed to
\* read on the same store and the read succeeds; and after write("n/t", c)
\* list("n/*") returns exactly <<"n/t">>, the path as it was written.
C2_ListedPathsReadable ==
    \A t \in SeqTasks :
        /\ (/\ Len(hist[t]) = 2
            /\ Prev(t).op = "list" /\ Prev(t).ok
            /\ Last(t).op = "read"
            /\ \E i \in 1..Len(Prev(t).val) : Prev(t).val[i] = Last(t).arg)
           => Last(t).ok
        /\ (/\ Len(hist[t]) = 2
            /\ Prev(t).op = "write" /\ Prev(t).ok /\ Prev(t).arg = <<"n", "/", "t">>
            /\ Last(t).op = "list" /\ Last(t).arg = <<"n", "/", "*">> /\ Last(t).ok)
           => Last(t).val = << <<"n", "/", "t">> >>

\* what a write that returned left in the tree
WriteOutcome(r) ==
    LET n == Target(r.arg)
    IN  /\ r.ok => (IsFile(n) /\ \A m \in ProperPrefixes(n) : IsDir(m))
        /\ ~r.ok => \/ r.source = "Other"
                    \/ IsDir(n)
                    \/ \E m \in ProperPrefixes(n) : IsFile(m)

\* C3: a write that returned success left the file and every ancestor
\* directory of root/p in the tree, and a write fails only when a regular
\* file stands where a directory is needed, the target is a directory, or
\* the system refuses the file: missing ancestors never make it fail.  The
\* step that makes the directories removes none, and changes no file and no
\* directory's permissions.
C3_WriteCreatesAncestors ==
    /\ [](\A t \in Tasks : (Returned(t) /\ Last(t).op = "write") => WriteOutcome(Last(t)))
    /\ [][/\ dirs \subseteq dirs'
          /\ (\E t \in Tasks : pc[t] = "w_dirs" /\ pc'[t] # "w_dirs")
                => (files' = files /\ noread' = noread)]_vars

\* C3 witness: the first call, write("n/t", c) on a store whose root "/s" did
\* not exist, returned success: /s, /s/n and /s/n/t were all made by it.
C3_Witness ==
    /\ parent = <<"/", "s">>
    /\ Len(hist[1]) = 1
    /\ Last(1).op = "write" /\ Last(1).ok /\ Last(1).arg = <<"n", "/", "t">>
    /\ DOMAIN files = {Target(<<"n", "/", "t">>)}
    /\ IsDir(RootNode \o << <<"n">> >>)

\* the names from the root down to node m (m is under the root)
RelSegs(m) == SubSeq(m, Len(RootNode) + 1, Len(m))

UnderRoot(m) == Len(m) > Len(RootNode) /\ SubSeq(m, 1, Len(RootNode)) = RootNode

RECURSIVE RelMatch(_, _, _)
\* The names segs match the components pats; "**" stands for any run of
\* directories (the last name of a file is no directory).
RelMatch(pats, segs, isfile) ==
    IF pats = <<>> THEN segs = <<>>
    ELSE IF Head(pats) = <<"*", "*">>
         THEN \/ RelMatch(Tail(pats), segs, isfile)
              \/ /\ Len(segs) > (IF isfile THEN 1 ELSE 0)
                 /\ RelMatch(pats, Tail(segs), isfile)
    ELSE /\ segs # <<>>
         /\ PatMatch(Head(pats), Head(segs))
         /\ RelMatch(Tail(pats), Tail(segs), isfile)

\* the regular files under the root that expression e matches and whose names are text
MatchingFiles(e) ==
    {m \in DOMAIN files :
        /\ UnderRoot(m)
        /\ RelMatch(Split(e), RelSegs(m), TRUE)
        /\ \A i \in 1..Len(m) : BadByte \notin Range(m[i])}

WellFormedExpr(e) == \A i \in 1..Len(Split(e)) : WellFormedComp(Split(e)[i])

\* C4: a successful list returns exactly the regular files the expression
\* matches (each once, no directory among them, none whose name is text left
\* out); with a well-formed expression and every directory readable list
\* succeeds, with the empty sequence when nothing matches.
C4_ListOnlyFiles ==
    \A t \in Tasks :
        (Returned(t) /\ pc[t] = "idle" /\ Last(t).op = "list") =>
            LET r == Last(t)
            IN  /\ r.ok =>
                     /\ {NodeOf(r.val[i]) : i \in 1..Len(r.val)} = MatchingFiles(r.arg)
                     /\ Len(r.val) = Cardinality(MatchingFiles(r.arg))
                /\ (WellFormedExpr(r.arg) /\ noread = {}) => r.ok

\* C4 witness: list("*") returned one path, that of the file f, while the
\* directory n under the root matched "*" as well.
C4_Witness ==
    /\ Returned(1) /\ pc[1] = "idle"
    /\ Last(1).op = "list" /\ Last(1).ok /\ Last(1).arg = <<"*">>
    /\ {NodeOf(Last(1).val[i]) : i \in 1..Len(Last(1).val)} = {RootNode \o << <<"f">> >>}
    /\ IsDir(RootNode \o << <<"n">> >>)

\* Directory d's entries must be read to expand the components pats: d
\* matches the first k of them and the next one is a wildcard, or the k-th
\* is "**", which descends into every directory it matches.
MustRead(pats, d) ==
    \E k \in 0..Len(pats) :
        /\ RelMatch(SubSeq(pats, 1, k), RelSegs(d), FALSE)
        /\ \/ k < Len(pats) /\ ~IsLiteral(pats[k + 1])
           \/ k >= 1 /\ pats[k] = <<"*", "*">>

\* C5: a malformed expression gives ListError kind ParseGlob and nothing else
\* does; kind ReadPath is given exactly when the expression is well-formed
\* and a directory whose entries the expansion must read cannot be read; in
\* both the expression field is the expression as the caller passed it.
C5_ListErrorKinds ==
    \A t \in Tasks :
        (Returned(t) /\ pc[t] = "idle" /\ Last(t).op = "list") =>
            LET r == Last(t)
                unreadable == \E d \in noread :
                                 (d = RootNode \/ UnderRoot(d)) /\ MustRead(Split(r.arg), d)
            IN  /\ ~WellFormedExpr(r.arg) <=> (~r.ok /\ r.kind = "ParseGlob")
                /\ (WellFormedExpr(r.arg) /\ unreadable) <=> (~r.ok /\ r.kind = "ReadPath")
                /\ ~r.ok => (r.ctx = r.arg /\ r.kind \in {"ParseGlob", "ReadPath"})

\* C5 witness: one caller got a ParseGlob error and then a ReadPath error.
C5_Witness ==
    /\ Len(hist[1]) = 2
    /\ ~Prev(1).ok /\ Prev(1).kind = "ParseGlob" /\ Prev(1).ctx = <<"n", "/", "[">>
    /\ ~Last(1).ok /\ Last(1).kind = "ReadPath" /\ Last(1).ctx = <<"*", "/", "*">>

\* C6: a read of a path that names nothing under the root returned a
\* ReadError -- never a success -- whose path field is the path as passed and
\* whose source is the io::Error of the open; every ReadError names the path
\* as passed.
C6_ReadMissingFails ==
    \A t \in Tasks :
        (Returned(t) /\ Last(t).op = "read") =>
            LET r == Last(t)
            IN  /\ ~Exists(Target(r.arg)) =>
                     /\ ~r.ok
                     /\ r.kind = "ReadError"
                     /\ r.source \in {"NotFound", "NotADirectory"}
                /\ ~r.ok => (r.ctx = r.arg /\ r.kind = "ReadError" /\ r.source # "")

\* C6 witness: read("n/t") on a store with no such file returned the error.
C6_Witness ==
    /\ Returned(1)
    /\ Last(1).op = "read" /\ Last(1).arg = <<"n", "/", "t">>
    /\ ~Last(1).ok /\ Last(1).source = "NotFound" /\ Last(1).ctx = <<"n", "/", "t">>

\* C10: a step of a read (its open, one of its reads, its return) or of a
\* list leaves the directories, the files with their contents, the
\* permissions and the store's root as they were.
C10_ReadListNoEffect ==
    [][(\E t \in Tasks :
           \/ pc[t] = "idle" /\ pc'[t] = "r_open"
           \/ pc[t] \in {"r_open", "r_read"} /\ (pc'[t] # pc[t] \/ rd'[t] # rd[t])
           \/ hist'[t] # hist[t] /\ hist'[t][Len(hist'[t])].op \in {"read", "list"})
        => UNCHANGED <<parent, dirs, files, noread>>]_vars

\* C10 witness: a read that failed and a list have both returned.
C10_Witness ==
    /\ Len(hist[1]) = 2
    /\ Prev(1).op = "read" /\ ~Prev(1).ok
    /\ Last(1).op = "list"

\* ---- claims about concurrent callers (SpecConc)
\* every writer's call returned success and every byte handed over was stored
AllStored ==
    /\ \A w \in Writers : Returned(w) /\ Last(w).ok
    /\ jobs = {}
    /\ lost = {}

Final == files[Target(ConcPath)]

C8_FailureReturnsError ==
    \A t \in Tasks : \A i \in 1..Len(hist[t]) :
        (hist[t][i].op = "write" /\ hist[t][i].id \in lost) => ~hist[t][i].ok

\* C9: a read excludes nobody and is excluded by nobody: whatever the writers
\* of the same file are doing, a read that is under way can take its next step.
C9_ReadNotExcluded ==
    \A t \in Readers :
        /\ pc[t] = "r_open" => ENABLED ReadOpen(t)
        /\ pc[t] = "r_read" => ENABLED ReadChunk(t)

\* C9 witness (a torn read): with one write(p, c) over the content c0 and no
\* other writer, the read returned success with a value that is neither c0 nor c.
C9_Witness ==
    /\ pc[2] = "idle" /\ hist[2] = <<>>
    /\ call[1].op = "write"
    /\ Returned(3) /\ Last(3).ok
    /\ Last(3).val \notin OldContents \cup {call[1].content}

====
